---- MODULE Spec2Model ----
(***************************************************************************)
(* Model of psycopg/_typeinfo.py: the TypeInfo descriptor, its fetch       *)
(* protocol, and the copy-on-write TypesRegistry.                          *)
(*                                                                         *)
(* Python strings are sequences of one-character strings, so that          *)
(* str.endswith("[]") and key[:-2] are computed, not assumed.              *)
(* Python objects are heap cells: a TypeInfo is an index into infos, a     *)
(* dict is an id in DOMAIN dicts; identity is equality of the index.       *)
(***************************************************************************)
EXTENDS Integers, Sequences, FiniteSets, TLC

\* ---------------------------------------------------------------- bounds
MaxInfos == 2       \* TypeInfo instances constructed, key-binding runs
MaxRegs == 2        \* TypesRegistry instances constructed, key-binding runs
MaxInfosCow == 2    \* TypeInfo instances constructed, derivation-chain runs
MaxRegsCow == 3     \* TypesRegistry instances constructed, derivation-chain runs
MaxRecs == 2        \* rows the catalog holds for one name
MaxInfosKeys == 2   \* TypeInfo instances constructed, empty-name runs
MaxRegsKeys == 2    \* TypesRegistry instances constructed, empty-name runs
MaxInfosRead == 2   \* TypeInfo instances constructed, runs with reads
MaxRegsRead == 2    \* TypesRegistry instances constructed, runs with reads

\* ------------------------------------------------------- input universes
Str_a == <<"a">>
Str_a_arr == <<"a", "[", "]">>
Str_empty == <<>>
Names == {Str_a, Str_a_arr}
RegtypeArgs == {Str_empty, Str_a, Str_a_arr}
Oids == {0, 1}
ArrayOids == {0, 2}
Delimiters == {","}
Classes == {"TypeInfo", "RangeInfo"}
SubtypeOids == {1}
\* constructor arguments explored by the key-binding runs ...
Args == Classes \X Names \X Oids \X ArrayOids \X RegtypeArgs \X Delimiters \X SubtypeOids
\* ... and by the derivation-chain runs
ArgsCow == Classes \X {Str_a} \X {1} \X {2} \X {Str_empty, Str_a_arr} \X Delimiters \X SubtypeOids
\* ... and by the runs with reads: twins of a base and of a range kind
ArgsRead == Classes \X {Str_a} \X {1} \X {2} \X {Str_empty} \X Delimiters \X SubtypeOids
\* ... and by the runs where a descriptor may have the empty name
ArgsKeys == Classes \X {Str_empty, Str_a} \X Oids \X ArrayOids \X RegtypeArgs
                \X Delimiters \X SubtypeOids

\* rows of the catalog query
Rows == [name : {Str_a}, oid : {1}, array_oid : {0, 2},
         regtype : {Str_a, Str_a_arr}, delimiter : Delimiters]
Catalogs == UNION {[1..n -> Rows] : n \in 0..MaxRecs}

\* to_regtype() introduced in PostgreSQL 9.4 and CockroachDB 22.2
PgMinVersion == 90400
CrdbMinVersion == 220200
Vendors == {"PostgreSQL", "CockroachDB", "Other"}
Versions == {PgMinVersion - 1, PgMinVersion, CrdbMinVersion - 1, CrdbMinVersion}
ConnKinds == {"Connection", "AsyncConnection", "other"}

\* --------------------------------------------------------- Python values
None == 0           \* the absent descriptor reference; live ids are 1..n

ArrayMarker == <<"[", "]">>

\* str.endswith(suffix)
endswith(s, suffix) ==
    /\ Len(s) >= Len(suffix)
    /\ SubSeq(s, Len(s) - Len(suffix) + 1, Len(s)) = suffix

\* key[:-2]
strip2(s) == IF Len(s) >= 2 THEN SubSeq(s, 1, Len(s) - 2) ELSE <<>>

\* RegistryKey = Union[str, int, Tuple[type, int]]; any other object is
\* kind "other".  Every key carries all fields so that keys of different
\* kinds compare unequal instead of being incomparable.
KStr(s) == [kind |-> "str", s |-> s, n |-> 0, c |-> ""]
KInt(n) == [kind |-> "int", s |-> <<>>, n |-> n, c |-> ""]
KTuple(c, n) == [kind |-> "tuple", s |-> <<>>, n |-> n, c |-> c]
KOther == [kind |-> "other", s |-> <<>>, n |-> 0, c |-> ""]
\* the empty tuple (): a tuple, but not a (kind, oid) pair
KEmptyTuple == [kind |-> "tuple", s |-> <<>>, n |-> 0, c |-> ""]

\* ------------------------------------------------------ dict (insertion
\* ordered): a sequence of [k, v] entries with pairwise distinct k
EmptyDict == <<>>

DictHas(d, k) == \E j \in 1..Len(d) : d[j].k = k

DictGet(d, k) == d[CHOOSE j \in 1..Len(d) : d[j].k = k].v

\* d[k] = v : rebinding keeps the key's position, a new key goes last
DictSet(d, k, v) ==
    IF DictHas(d, k)
    THEN [j \in 1..Len(d) |-> IF d[j].k = k THEN [k |-> k, v |-> v] ELSE d[j]]
    ELSE Append(d, [k |-> k, v |-> v])

DictValues(d) == [j \in 1..Len(d) |-> d[j].v]

\* ------------------------------------------------------------- variables
VARIABLES
    infos,      \* heap of TypeInfo instances: sequence of field records
    regs,       \* TypesRegistry instances: id -> [_registry, _own_state]
    dicts,      \* heap of dict objects: id -> ordered entries
    hooks       \* how many info._added(registry) calls the last add made

regvars == <<infos, regs, dicts, hooks>>

VARIABLES
    pc,             \* position of the fetch in progress, "idle" when none
    conn,           \* the connection argument: [kind, vendor, server_version]
    catalog,        \* rows of pg_type the server holds for the name asked
    tstatus,        \* transaction status of the connection
    scopes,         \* transaction scopes fetch has entered and not exited
    cursor,         \* the cursor of fetch: [open, rows]
    exc,            \* exception in flight, then the one raised to the caller
    recs,           \* local variable recs
    result,         \* return value: <<>> is None, <<info>> a descriptor
    outcome,        \* what the query execution came to
    entry_status    \* tstatus when fetch was called

fetchvars == <<pc, conn, catalog, tstatus, scopes, cursor, exc, recs, result,
               outcome, entry_status>>

VARIABLES
    ret,            \* what the last read of a registry came to
    it              \* the generator object the last iter(registry) returned

readvars == <<ret, it>>

vars == <<infos, regs, dicts, hooks, pc, conn, catalog, tstatus, scopes, cursor, exc,
          recs, result, outcome, entry_status, ret, it>>

\* -------------------------------------------------------------- TypeInfo
\* TypeInfo.__init__: regtype defaults to name
TypeInfo__init__(cls, name, oid, array_oid, regtype, delimiter, subtype_oid) ==
    [cls |-> cls,
     name |-> name,
     oid |-> oid,
     array_oid |-> array_oid,
     regtype |-> IF regtype # <<>> THEN regtype ELSE name,
     delimiter |-> delimiter,
     subtype_oid |-> subtype_oid]

\* RangeInfo._added: a derived kind indexes itself under the compound key
\* (RangeInfo, subtype_oid)
RangeInfo_added(info, i, d) == DictSet(d, KTuple("RangeInfo", info.subtype_oid), i)

\* info._added(registry), dispatched on the class of info; TypeInfo._added,
\* the default hook, does nothing
_added(info, i, d) ==
    IF info.cls = "RangeInfo" THEN RangeInfo_added(info, i, d) ELSE d

\* --------------------------------------------------------- TypesRegistry
LiveRegs == 1..Len(regs)

\* the mapping object a registry references
RegDict(r) == dicts[regs[r]._registry]

\* id of the dict object registry r is about to create: distinct from every
\* dict that stays alive, i.e. from every dict another registry references
\* and from the dict a suspended iteration is reading (st.held)
NewDictId(st, r) ==
    LET used == {st.regs[q]._registry : q \in (1..Len(st.regs)) \ {r}}
                    \cup st.held
    IN  CHOOSE n \in 1..(Len(st.regs) + Cardinality(st.held) + 1) :
            n \notin used /\ \A m \in 1..(n - 1) : m \in used

\* reference counting: a dict that no registry references any more and no
\* suspended iteration reads is reclaimed
Collect(st) ==
    [st EXCEPT !.dicts =
        [n \in {st.regs[q]._registry : q \in 1..Len(st.regs)} \cup st.held
            |-> st.dicts[n]]]

\* _ensure_own_state that claims ownership without copying the mapping
_ensure_own_state_nocopy(st, r) ==
    [st EXCEPT !.regs[r]._own_state = TRUE]

\* TypesRegistry._ensure_own_state on the heap st = [regs, dicts, held, hooks]
_ensure_own_state(st, r) ==
    IF ~st.regs[r]._own_state
    THEN LET n == NewDictId(st, r)
         IN  [regs |-> [st.regs EXCEPT ![r] =
                           [_registry |-> n, _own_state |-> TRUE]],
              dicts |-> (n :> st.dicts[st.regs[r]._registry]) @@ st.dicts,
              held |-> st.held,
              hooks |-> st.hooks]
    ELSE st

\* TypesRegistry.clear
clear(st, r) ==
    LET n == NewDictId(st, r)
    IN  [regs |-> [st.regs EXCEPT ![r] = [_registry |-> n, _own_state |-> TRUE]],
         dicts |-> (n :> EmptyDict) @@ st.dicts,
         held |-> st.held,
         hooks |-> st.hooks]

\* add without the tests that skip a zero oid or array oid
add_keys_binds_zero(d, info, i) ==
    LET d1 == DictSet(d, KInt(info.oid), i)
        d2 == DictSet(d1, KInt(info.array_oid), i)
        d3 == DictSet(d2, KStr(info.name), i)
        d4 == IF info.regtype # <<>> /\ ~DictHas(d3, KStr(info.regtype))
              THEN DictSet(d3, KStr(info.regtype), i)
              ELSE d3
    IN  d4

\* add that binds the scalar oid twice and never the array oid
add_keys_oid_twice(d, info, i) ==
    LET d1 == IF info.oid # 0 THEN DictSet(d, KInt(info.oid), i) ELSE d
        d2 == IF info.array_oid # 0 THEN DictSet(d1, KInt(info.oid), i) ELSE d1
        d3 == DictSet(d2, KStr(info.name), i)
        d4 == IF info.regtype # <<>> /\ ~DictHas(d3, KStr(info.regtype))
              THEN DictSet(d3, KStr(info.regtype), i)
              ELSE d3
    IN  d4

\* add whose regtype alias overwrites an existing binding
add_keys_regtype_overwrites(d, info, i) ==
    LET d1 == IF info.oid # 0 THEN DictSet(d, KInt(info.oid), i) ELSE d
        d2 == IF info.array_oid # 0 THEN DictSet(d1, KInt(info.array_oid), i) ELSE d1
        d3 == DictSet(d2, KStr(info.name), i)
        d4 == IF info.regtype # <<>>
              THEN DictSet(d3, KStr(info.regtype), i)
              ELSE d3
    IN  d4

\* the writes of TypesRegistry.add on the mapping d, in program order
add_keys(d, info, i) ==
    LET d1 == IF info.oid # 0 THEN DictSet(d, KInt(info.oid), i) ELSE d
        d2 == IF info.array_oid # 0 THEN DictSet(d1, KInt(info.array_oid), i) ELSE d1
        d3 == DictSet(d2, KStr(info.name), i)
        d4 == IF info.regtype # <<>> /\ ~DictHas(d3, KStr(info.regtype))
              THEN DictSet(d3, KStr(info.regtype), i)
              ELSE d3
    IN  d4

\* the call info._added(registry) of line 222, made on the heap st with
\* the registry r as its argument: the hook works on the mapping r
\* references at the call, and the call is counted
call_added(st, r, infs, i) ==
    LET n == st.regs[r]._registry
    IN  [st EXCEPT !.dicts[n] = _added(infs[i], i, st.dicts[n]),
                   !.hooks = st.hooks + 1]

\* add that runs the post-add hook first, on the mapping the registry
\* references on entry, and only then forks and inserts the keys
add_hook_first(st, r, infs, i) ==
    LET st0 == call_added(st, r, infs, i)
        st1 == _ensure_own_state(st0, r)
        n == st1.regs[r]._registry
    IN  [st1 EXCEPT !.dicts[n] = add_keys(st1.dicts[n], infs[i], i)]

\* add that calls the post-add hook a second time
add_hook_twice(st, r, infs, i) ==
    LET st1 == _ensure_own_state(st, r)
        n == st1.regs[r]._registry
        st2 == [st1 EXCEPT !.dicts[n] = add_keys(st1.dicts[n], infs[i], i)]
    IN  call_added(call_added(st2, r, infs, i), r, infs, i)

\* TypesRegistry.add
add(st, r, infs, i) ==
    LET st1 == _ensure_own_state(st, r)
        n == st1.regs[r]._registry
        st2 == [st1 EXCEPT !.dicts[n] = add_keys(st1.dicts[n], infs[i], i)]
    IN  call_added(st2, r, infs, i)

\* a constructor that copies the template's mapping at once and leaves the
\* template alone
TypesRegistry__init___copies(st, template) ==
    LET r == Len(st.regs) + 1
        st0 == [st EXCEPT !.regs =
                   Append(st.regs, [_registry |-> 0, _own_state |-> FALSE])]
    IN  IF template # None
        THEN LET n == NewDictId(st0, r)
             IN  [regs |-> [st0.regs EXCEPT ![r] =
                               [_registry |-> n, _own_state |-> TRUE]],
                  dicts |-> (n :> st.dicts[st.regs[template]._registry]) @@ st.dicts,
                  held |-> st.held,
                  hooks |-> st.hooks]
        ELSE clear(st0, r)

\* a constructor that shares the template's mapping and leaves the
\* template's ownership flag as it was
TypesRegistry__init___keeps_flag(st, template) ==
    LET r == Len(st.regs) + 1
    IN  IF template # None
        THEN [st EXCEPT
                !.regs = Append(st.regs,
                                [_registry |-> st.regs[template]._registry,
                                 _own_state |-> FALSE])]
        ELSE clear([st EXCEPT !.regs =
                       Append(st.regs, [_registry |-> 0, _own_state |-> FALSE])], r)

\* TypesRegistry.__init__ of the new registry Len(st.regs) + 1
TypesRegistry__init__(st, template) ==
    LET r == Len(st.regs) + 1
    IN  IF template # None
        THEN [st EXCEPT
                !.regs = Append([st.regs EXCEPT ![template]._own_state = FALSE],
                                [_registry |-> st.regs[template]._registry,
                                 _own_state |-> FALSE])]
        ELSE clear([st EXCEPT !.regs =
                       Append(st.regs, [_registry |-> 0, _own_state |-> FALSE])], r)

\* iteration that yields every value of the mapping, seen or not
iter_from_nodedup(vs, j, seen) ==
    [n \in 1..(Len(vs) - j + 1) |-> vs[n + j - 1]]

\* iteration that deduplicates by field values instead of by id()
RECURSIVE iter_from_byvalue(_, _, _)
iter_from_byvalue(vs, j, seen) ==
    IF j > Len(vs) THEN <<>>
    ELSE IF \A v \in seen : infos[v] # infos[vs[j]]
         THEN <<vs[j]>> \o iter_from_byvalue(vs, j + 1, seen \cup {vs[j]})
         ELSE iter_from_byvalue(vs, j + 1, seen)

\* TypesRegistry.__iter__ over the values vs, having seen the ids in seen
RECURSIVE iter_from(_, _, _)
iter_from(vs, j, seen) ==
    IF j > Len(vs) THEN <<>>
    ELSE IF vs[j] \notin seen
         THEN <<vs[j]>> \o iter_from(vs, j + 1, seen \cup {vs[j]})
         ELSE iter_from(vs, j + 1, seen)

\* what TypesRegistry.__iter__ yields over the mapping d when it is run to
\* its end with no write to d in between
__iter__(d) == iter_from(DictValues(d), 1, {})

\* outcomes of a lookup
Return(v) == [tag |-> "return", v |-> v, key |-> KOther]
Raise(err, key) == [tag |-> err, v |-> None, key |-> key]

\* indexing that does not strip the array marker
getitem_nostrip(d, key) ==
    IF key.kind \notin {"str", "int", "tuple"}
    THEN Raise("TypeError", key)
    ELSE IF DictHas(d, key) THEN Return(DictGet(d, key))
         ELSE Raise("KeyError", key)

\* TypesRegistry.__getitem__ on the mapping d
__getitem__(d, key) ==
    LET k == IF key.kind = "str" /\ endswith(key.s, ArrayMarker)
             THEN KStr(strip2(key.s))
             ELSE key
    IN  IF key.kind \notin {"str", "int", "tuple"}
        THEN Raise("TypeError", key)
        ELSE IF DictHas(d, k) THEN Return(DictGet(d, k))
             ELSE Raise("KeyError", k)

\* get without its except clause
get_propagates(d, key) == __getitem__(d, key)

\* TypesRegistry.get
get(d, key) ==
    LET res == __getitem__(d, key)
    IN  IF res.tag = "KeyError" THEN Return(None) ELSE res

\* the outcome of get_oid: an oid, which may be 0, is not a descriptor
ReturnOid(n) == [tag |-> "oid", v |-> n, key |-> KOther]

\* get_oid that returns the scalar oid whatever the name
get_oid_scalar(d, infs, name) ==
    LET t == __getitem__(d, name)
    IN  IF t.tag # "return" THEN t
        ELSE IF name.kind # "str" THEN Raise("AttributeError", name)
        ELSE ReturnOid(infs[t.v].oid)

\* TypesRegistry.get_oid on the mapping d; name.endswith exists on strings
\* only
get_oid(d, infs, name) ==
    LET t == __getitem__(d, name)
    IN  IF t.tag # "return" THEN t
        ELSE IF name.kind # "str" THEN Raise("AttributeError", name)
        ELSE IF endswith(name.s, ArrayMarker)
             THEN ReturnOid(infs[t.v].array_oid)
             ELSE ReturnOid(infs[t.v].oid)

\* get_by_subtype that indexes the compound key instead of calling get
get_by_subtype_index(d, infs, cls, subtype) ==
    LET info == __getitem__(d, subtype)
    IN  IF info.tag = "KeyError" THEN Return(None)
        ELSE IF info.tag # "return" THEN info
        ELSE __getitem__(d, KTuple(cls, infs[info.v].oid))

\* TypesRegistry.get_by_subtype on the mapping d
get_by_subtype(d, infs, cls, subtype) ==
    LET info == __getitem__(d, subtype)
    IN  IF info.tag = "KeyError" THEN Return(None)
        ELSE IF info.tag # "return" THEN info
        ELSE get(d, KTuple(cls, infs[info.v].oid))

\* ------------------------------------------------------ registry actions
\* the generator object before iter() made one
NoIter == [state |-> "none", reg |-> 0, dict |-> 0, used |-> 0, pos |-> 0,
           seen |-> {}, t |-> 0]

\* the dict the values iterator of a suspended generator refers to
HeldIds(g) == IF g.state = "running" THEN {g.dict} ELSE {}

\* the heap an operation starts on; it has made no call yet
Heap == [regs |-> regs, dicts |-> dicts, held |-> HeldIds(it), hooks |-> 0]

SetHeap(st) ==
    /\ regs' = st.regs
    /\ dicts' = Collect(st).dicts

\* TypeInfo(...) / RangeInfo(...): a new instance on the heap
Construct(a) ==
    /\ infos' = Append(infos,
          TypeInfo__init__(a[1], a[2], a[3], a[4], a[5], a[6],
                           IF a[1] = "RangeInfo" THEN a[7] ELSE 0))
    /\ UNCHANGED <<regs, dicts, hooks>>
    /\ UNCHANGED <<fetchvars, readvars>>

\* TypesRegistry()
Create ==
    /\ SetHeap(TypesRegistry__init__(Heap, None))
    /\ UNCHANGED <<infos, hooks>>
    /\ UNCHANGED <<fetchvars, readvars>>

\* TypesRegistry(template)
Derive(template) ==
    /\ template \in LiveRegs
    /\ SetHeap(TypesRegistry__init__(Heap, template))
    /\ UNCHANGED <<infos, hooks>>
    /\ UNCHANGED <<fetchvars, readvars>>

\* registry.add(info)
Add(r, i) ==
    /\ r \in LiveRegs
    /\ i \in 1..Len(infos)
    /\ \E st \in {add(Heap, r, infos, i)} :
          SetHeap(st) /\ hooks' = st.hooks
    /\ UNCHANGED infos
    /\ UNCHANGED <<fetchvars, readvars>>

\* registry.clear()
Clear(r) ==
    /\ r \in LiveRegs
    /\ SetHeap(clear(Heap, r))
    /\ UNCHANGED <<infos, hooks>>
    /\ UNCHANGED <<fetchvars, readvars>>

\* ----------------------------------------------------------------- reads
\* the keys a caller reads the registries with: a name with the array
\* marker, an oid, a compound key (each a hit or a miss, by what the
\* registry holds) and a key of no supported type
ReadKeys ==
    {KStr(Str_a_arr), KInt(1), KTuple("RangeInfo", 1), KOther}

NoRet == [op |-> "none", res |-> Return(None)]

\* registry[key]
GetItem(r, key) ==
    /\ r \in LiveRegs
    /\ ret' = [op |-> "__getitem__", res |-> __getitem__(RegDict(r), key)]
    /\ UNCHANGED regvars
    /\ UNCHANGED <<fetchvars, it>>

\* a get that takes a private copy of the index before it looks the key up
Get_forks(r, key) ==
    /\ r \in LiveRegs
    /\ ret' = [op |-> "get", res |-> get(RegDict(r), key)]
    /\ SetHeap(_ensure_own_state(Heap, r))
    /\ UNCHANGED <<infos, hooks>>
    /\ UNCHANGED <<fetchvars, it>>

\* registry.get(key)
Get(r, key) ==
    /\ r \in LiveRegs
    /\ ret' = [op |-> "get", res |-> get(RegDict(r), key)]
    /\ UNCHANGED regvars
    /\ UNCHANGED <<fetchvars, it>>

\* registry.get_oid(name)
GetOid(r, name) ==
    /\ r \in LiveRegs
    /\ ret' = [op |-> "get_oid", res |-> get_oid(RegDict(r), infos, name)]
    /\ UNCHANGED regvars
    /\ UNCHANGED <<fetchvars, it>>

\* registry.get_by_subtype(cls, subtype)
GetBySubtype(r, cls, subtype) ==
    /\ r \in LiveRegs
    /\ ret' = [op |-> "get_by_subtype",
               res |-> get_by_subtype(RegDict(r), infos, cls, subtype)]
    /\ UNCHANGED regvars
    /\ UNCHANGED <<fetchvars, it>>

\* it = iter(registry): calling the generator function makes the
\* generator object; nothing of its body has run.  One generator is
\* followed at a time: a new one is made when the last one has finished.
IterStart(r) ==
    /\ r \in LiveRegs
    /\ it.state \in {"none", "done"}
    /\ it' = [NoIter EXCEPT !.state = "created", !.reg = r]
    /\ ret' = [op |-> "__iter__", res |-> Return(None)]
    /\ UNCHANGED regvars
    /\ UNCHANGED fetchvars

\* the generator g as its body starts: seen = set() and the values
\* iterator of the dict the registry references now, which records the
\* size of the dict; the registry is not read again
iter_begin(g) ==
    IF g.state = "created"
    THEN [g EXCEPT !.state = "running",
                   !.reg = 0,
                   !.dict = regs[g.reg]._registry,
                   !.used = Len(RegDict(g.reg)),
                   !.pos = 0,
                   !.seen = {}]
    ELSE g

\* the positions after g.pos of the values whose id() is not in seen.  The
\* id of a descriptor is its heap cell, which is unique among the
\* descriptors alive: a descriptor built in the cell of a freed one
\* (ConstructReuse) has the id the freed one had.
iter_fresh(g, d) == {j \in (g.pos + 1)..Len(d) : d[j].v \notin g.seen}

\* the generator once it has returned or raised
IterDone == [NoIter EXCEPT !.state = "done"]

\* next(it): the body runs from where it was suspended to the next yield.
\* The values iterator raises RuntimeError when the size of its dict is
\* not the one it recorded, else it goes on from its position over the
\* entries the dict has now; the loop skips the descriptors seen and
\* suspends at the first new one, or ends.  A generator that has returned
\* or raised raises StopIteration.
IterStep ==
    /\ it.state \in {"created", "running", "done"}
    /\ LET g == iter_begin(it)
           d == IF g.state = "running" THEN dicts[g.dict] ELSE EmptyDict
           fresh == iter_fresh(g, d)
           j == CHOOSE m \in fresh : \A n \in fresh : m <= n
       IN  IF g.state = "done"
           THEN /\ it' = IterDone
                /\ ret' = [op |-> "next", res |-> Raise("StopIteration", KOther)]
                /\ UNCHANGED dicts
           ELSE IF Len(d) # g.used
           THEN /\ it' = IterDone
                /\ ret' = [op |-> "next", res |-> Raise("RuntimeError", KOther)]
                /\ dicts' = Collect([Heap EXCEPT !.held = {}]).dicts
           ELSE IF fresh = {}
           THEN /\ it' = IterDone
                /\ ret' = [op |-> "next", res |-> Raise("StopIteration", KOther)]
                /\ dicts' = Collect([Heap EXCEPT !.held = {}]).dicts
           ELSE /\ it' = [g EXCEPT !.pos = j, !.seen = g.seen \cup {d[j].v},
                                   !.t = d[j].v]
                /\ ret' = [op |-> "next", res |-> Return(d[j].v)]
                /\ UNCHANGED dicts
    /\ UNCHANGED <<infos, regs, hooks>>
    /\ UNCHANGED fetchvars

\* no mapping, bound to a registry or read by a suspended iteration, has
\* the descriptor i as a value, and the loop variable t of a suspended
\* generator is not i: only the caller may still refer to i
Unreferenced(i) ==
    /\ \A n \in DOMAIN dicts : \A j \in 1..Len(dicts[n]) : dicts[n][j].v # i
    /\ ~(it.state = "running" /\ it.t = i)

\* TypeInfo(...) / RangeInfo(...) after the caller dropped its last
\* reference to the descriptor i, which nothing else refers to: i is freed
\* and the new instance is allocated in its cell, so that id() of the new
\* instance is the id i had.  (Construct is the allocation in a new cell.)
ConstructReuse(a, i) ==
    /\ i \in 1..Len(infos)
    /\ Unreferenced(i)
    /\ infos' = [infos EXCEPT ![i] =
          TypeInfo__init__(a[1], a[2], a[3], a[4], a[5], a[6],
                           IF a[1] = "RangeInfo" THEN a[7] ELSE 0)]
    /\ UNCHANGED <<regs, dicts, hooks>>
    /\ UNCHANGED <<fetchvars, readvars>>

\* the reads of at most maxRegs registries
ReadNext(maxRegs) ==
    \/ \E r \in 1..maxRegs, key \in ReadKeys : GetItem(r, key)
    \/ \E r \in 1..maxRegs, key \in ReadKeys : Get(r, key)
    \/ \E r \in 1..maxRegs, key \in ReadKeys : GetOid(r, key)
    \/ \E r \in 1..maxRegs, cls \in Classes, key \in ReadKeys :
          GetBySubtype(r, cls, key)
    \/ \E r \in 1..maxRegs : IterStart(r)
    \/ IterStep

\* ----------------------------------------------------------------- fetch
\* a capability test whose comparisons exclude the threshold versions
_has_to_regtype_function_strict(c) ==
    IF c.vendor = "PostgreSQL" THEN c.server_version > PgMinVersion
    ELSE IF c.vendor = "CockroachDB" THEN c.server_version > CrdbMinVersion
    ELSE FALSE

\* TypeInfo._has_to_regtype_function
_has_to_regtype_function(c) ==
    IF c.vendor = "PostgreSQL" THEN c.server_version >= PgMinVersion
    ELSE IF c.vendor = "CockroachDB" THEN c.server_version >= CrdbMinVersion
    ELSE FALSE

\* TypeInfo._to_regtype
_to_regtype(c) ==
    IF _has_to_regtype_function(c) THEN "to_regtype(%(name)s)" ELSE "%(name)s::regtype"

\* TypeInfo._get_info_query: the query is told apart by its WHERE operand
_get_info_query(c) == _to_regtype(c)

\* _from_records that takes the first row of several
_from_records_first(rs) ==
    IF Len(rs) >= 1
    THEN [exc |-> "none",
          result |-> <<TypeInfo__init__("TypeInfo", rs[1].name, rs[1].oid,
                          rs[1].array_oid, rs[1].regtype, rs[1].delimiter, 0)>>]
    ELSE [exc |-> "none", result |-> <<>>]

\* TypeInfo._from_records
_from_records(rs) ==
    IF Len(rs) = 1
    THEN [exc |-> "none",
          result |-> <<TypeInfo__init__("TypeInfo", rs[1].name, rs[1].oid,
                          rs[1].array_oid, rs[1].regtype, rs[1].delimiter, 0)>>]
    ELSE IF Len(rs) = 0
         THEN [exc |-> "none", result |-> <<>>]
         ELSE [exc |-> "ProgrammingError", result |-> <<>>]

\* what the server can answer to the query: the cast raises the
\* unknown-type error where to_regtype() yields NULL and so no row
ServerReplies(query, rows) ==
    {"OtherError"} \cup
        (IF query = "%(name)s::regtype" /\ rows = <<>>
         THEN {"UndefinedObject"} ELSE {"rows"})

\* conn.transaction().__enter__: BEGIN when idle, else SAVEPOINT
TransactionEnter(status) == IF status = "IDLE" THEN "BEGIN" ELSE "SAVEPOINT"

\* conn.transaction().__exit__: COMMIT or ROLLBACK ends a transaction fetch
\* began; RELEASE or ROLLBACK TO leaves the outer transaction in progress
TransactionExit(scope) == IF scope = "BEGIN" THEN "IDLE" ELSE "INTRANS"

NoCursor == [open |-> FALSE, rows |-> <<>>]

NoConn == [kind |-> "other", vendor |-> "Other", server_version |-> PgMinVersion]

\* TypeInfo.fetch: dispatch on the type of conn, whatever its status
FetchCall(kind, vendor, version, rows) ==
    /\ pc = "idle"
    /\ conn' = [kind |-> kind, vendor |-> vendor, server_version |-> version]
    /\ catalog' = rows
    /\ entry_status' = tstatus
    /\ exc' = IF kind \in {"Connection", "AsyncConnection"} THEN "none" ELSE "TypeError"
    /\ pc' = IF kind \in {"Connection", "AsyncConnection"} THEN "tx_enter" ELSE "done"
    /\ recs' = <<>>
    /\ result' = <<>>
    /\ outcome' = "unset"
    /\ cursor' = NoCursor
    /\ UNCHANGED <<tstatus, scopes>>
    /\ UNCHANGED <<regvars, readvars>>

\* fetch whose query runs outside any transaction scope
EnterTransaction_noscope ==
    /\ pc = "tx_enter"
    /\ pc' = "cur_enter"
    /\ UNCHANGED <<conn, catalog, tstatus, scopes, cursor, exc, recs, result,
                   outcome, entry_status>>
    /\ UNCHANGED <<regvars, readvars>>

\* with conn.transaction(): on a connection whose transaction has failed
\* the scope, if it opens, is a nested one, and whether the failure is
\* still there when the body starts is the connection's affair
EnterTransaction ==
    /\ pc = "tx_enter"
    /\ scopes' = Append(scopes, TransactionEnter(tstatus))
    /\ IF tstatus = "INERROR"
       THEN \E s \in {"INTRANS", "INERROR"} : tstatus' = s
       ELSE tstatus' = "INTRANS"
    /\ pc' = "cur_enter"
    /\ UNCHANGED <<conn, catalog, cursor, exc, recs, result, outcome, entry_status>>
    /\ UNCHANGED <<regvars, readvars>>

\* with conn.transaction(): on a connection whose transaction has failed
\* the scope may as well refuse to open; the error of the connection is
\* none that fetch handles, no scope is open and the body does not run
EnterFailedTransaction ==
    /\ pc = "tx_enter"
    /\ tstatus = "INERROR"
    /\ exc' = "OtherError"
    /\ pc' = "except"
    /\ UNCHANGED <<conn, catalog, tstatus, scopes, cursor, recs, result, outcome,
                   entry_status>>
    /\ UNCHANGED <<regvars, readvars>>

\* with conn.cursor(row_factory=dict_row) as cur:
EnterCursor ==
    /\ pc = "cur_enter"
    /\ cursor' = [open |-> TRUE, rows |-> <<>>]
    /\ pc' = "execute"
    /\ UNCHANGED <<conn, catalog, tstatus, scopes, exc, recs, result, outcome,
                   entry_status>>
    /\ UNCHANGED <<regvars, readvars>>

\* cur.execute(cls._get_info_query(conn), {"name": name})
Execute(reply) ==
    /\ pc = "execute"
    /\ reply \in ServerReplies(_get_info_query(conn), catalog)
    /\ outcome' = reply
    /\ IF reply = "rows"
       THEN /\ cursor' = [cursor EXCEPT !.rows = catalog]
            /\ tstatus' = "INTRANS"
            /\ pc' = "fetchall"
            /\ UNCHANGED exc
       ELSE /\ exc' = reply
            /\ tstatus' = "INERROR"
            /\ pc' = "cur_exit"
            /\ UNCHANGED cursor
    /\ UNCHANGED <<conn, catalog, scopes, recs, result, entry_status>>
    /\ UNCHANGED <<regvars, readvars>>

\* recs = cur.fetchall()
FetchAll ==
    /\ pc = "fetchall"
    /\ recs' = cursor.rows
    /\ pc' = "cur_exit"
    /\ UNCHANGED <<conn, catalog, tstatus, scopes, cursor, exc, result, outcome,
                   entry_status>>
    /\ UNCHANGED <<regvars, readvars>>

\* the task running _fetch_async is cancelled while it awaits the enter of
\* the transaction scope or the query (lines 109, 111-112); cancelled in
\* the enter, no scope was opened
Cancel ==
    /\ conn.kind = "AsyncConnection"
    /\ pc \in {"tx_enter", "execute", "fetchall"}
    /\ exc' = "CancelledError"
    /\ IF pc = "tx_enter"
       THEN pc' = "except" /\ UNCHANGED <<tstatus, outcome>>
       ELSE /\ pc' = "cur_exit"
            /\ outcome' = "CancelledError"
            /\ \E s \in {"INTRANS", "INERROR"} : tstatus' = s
    /\ UNCHANGED <<conn, catalog, scopes, cursor, recs, result, entry_status>>
    /\ UNCHANGED <<regvars, readvars>>

\* the task is cancelled while it awaits the exit of the transaction scope:
\* the scope-release step still runs, with the cancellation as the
\* exception in flight in place of what the body left
CancelExit ==
    /\ conn.kind = "AsyncConnection"
    /\ pc = "tx_exit"
    /\ exc' = "CancelledError"
    /\ IF scopes # <<>>
       THEN /\ tstatus' = TransactionExit(scopes[Len(scopes)])
            /\ scopes' = SubSeq(scopes, 1, Len(scopes) - 1)
       ELSE UNCHANGED <<tstatus, scopes>>
    /\ pc' = "except"
    /\ UNCHANGED <<conn, catalog, cursor, recs, result, outcome, entry_status>>
    /\ UNCHANGED <<regvars, readvars>>

\* a cursor scope that is closed by hand on the success path only
ExitCursor_leak ==
    /\ pc = "cur_exit"
    /\ cursor' = IF exc = "none" THEN [cursor EXCEPT !.open = FALSE] ELSE cursor
    /\ pc' = "tx_exit"
    /\ UNCHANGED <<conn, catalog, tstatus, scopes, exc, recs, result, outcome,
                   entry_status>>
    /\ UNCHANGED <<regvars, readvars>>

\* leaving the cursor scope, with or without an exception in flight
ExitCursor ==
    /\ pc = "cur_exit"
    /\ cursor' = [cursor EXCEPT !.open = FALSE]
    /\ pc' = "tx_exit"
    /\ UNCHANGED <<conn, catalog, tstatus, scopes, exc, recs, result, outcome,
                   entry_status>>
    /\ UNCHANGED <<regvars, readvars>>

\* leaving the transaction scope, with or without an exception in flight
ExitTransaction ==
    /\ pc = "tx_exit"
    /\ IF scopes # <<>>
       THEN /\ tstatus' = TransactionExit(scopes[Len(scopes)])
            /\ scopes' = SubSeq(scopes, 1, Len(scopes) - 1)
       ELSE UNCHANGED <<tstatus, scopes>>
    /\ pc' = "except"
    /\ UNCHANGED <<conn, catalog, cursor, exc, recs, result, outcome, entry_status>>
    /\ UNCHANGED <<regvars, readvars>>

\* a handler that swallows every error of the query
Except_all ==
    /\ pc = "except"
    /\ IF exc \in {"UndefinedObject", "OtherError"}
       THEN exc' = "none" /\ result' = <<>> /\ pc' = "done"
       ELSE IF exc = "none"
            THEN pc' = "from_records" /\ UNCHANGED <<exc, result>>
            ELSE pc' = "done" /\ UNCHANGED <<exc, result>>
    /\ UNCHANGED <<conn, catalog, tstatus, scopes, cursor, recs, outcome,
                   entry_status>>
    /\ UNCHANGED <<regvars, readvars>>

\* except e.UndefinedObject: return None
Except ==
    /\ pc = "except"
    /\ IF exc = "UndefinedObject"
       THEN exc' = "none" /\ result' = <<>> /\ pc' = "done"
       ELSE IF exc = "none"
            THEN pc' = "from_records" /\ UNCHANGED <<exc, result>>
            ELSE pc' = "done" /\ UNCHANGED <<exc, result>>
    /\ UNCHANGED <<conn, catalog, tstatus, scopes, cursor, recs, outcome,
                   entry_status>>
    /\ UNCHANGED <<regvars, readvars>>

\* return cls._from_records(name, recs)
FromRecords ==
    /\ pc = "from_records"
    /\ exc' = _from_records(recs).exc
    /\ result' = _from_records(recs).result
    /\ pc' = "done"
    /\ UNCHANGED <<conn, catalog, tstatus, scopes, cursor, recs, outcome,
                   entry_status>>
    /\ UNCHANGED <<regvars, readvars>>

\* the caller has the result or the exception and the frame of fetch is
\* gone; the connection is free again
FetchReturn ==
    /\ pc = "done"
    /\ pc' = "idle"
    /\ conn' = NoConn
    /\ catalog' = <<>>
    /\ cursor' = NoCursor
    /\ exc' = "none"
    /\ recs' = <<>>
    /\ result' = <<>>
    /\ outcome' = "unset"
    /\ entry_status' = tstatus
    /\ UNCHANGED <<tstatus, scopes>>
    /\ UNCHANGED <<regvars, readvars>>

FetchIdle ==
    /\ pc = "idle"
    /\ conn = NoConn
    /\ catalog = <<>>
    /\ scopes = <<>>
    /\ cursor = NoCursor
    /\ exc = "none"
    /\ recs = <<>>
    /\ result = <<>>
    /\ outcome = "unset"
    /\ entry_status = tstatus

FetchNext ==
    \/ \E kind \in ConnKinds, vendor \in Vendors, version \in Versions,
          rows \in Catalogs : FetchCall(kind, vendor, version, rows)
    \/ EnterTransaction
    \/ EnterFailedTransaction
    \/ EnterCursor
    \/ \E reply \in {"rows", "UndefinedObject", "OtherError"} : Execute(reply)
    \/ FetchAll
    \/ Cancel
    \/ CancelExit
    \/ ExitCursor
    \/ ExitTransaction
    \/ Except
    \/ FromRecords
    \/ FetchReturn

RegInit ==
    /\ infos = <<>>
    /\ regs = <<>>
    /\ dicts = <<>>
    /\ hooks = 0

\* the registry operations, with at most maxInfos descriptors built from the
\* argument tuples in args and at most maxRegs registries
RegNext(args, maxInfos, maxRegs) ==
    \/ \E a \in args : Len(infos) < maxInfos /\ Construct(a)
    \/ Len(regs) < maxRegs /\ Create
    \/ \E t \in 1..maxRegs : Len(regs) < maxRegs /\ Derive(t)
    \/ \E r \in 1..maxRegs, i \in 1..maxInfos : Add(r, i)
    \/ \E r \in 1..maxRegs : Clear(r)

\* the registry operations, no fetch in progress
Init == RegInit /\ tstatus = "IDLE" /\ FetchIdle /\ ret = NoRet /\ it = NoIter
Next == RegNext(Args, MaxInfos, MaxRegs)
Spec == Init /\ [][Next]_vars

\* the registry operations over chains of derived registries
NextCow == RegNext(ArgsCow, MaxInfosCow, MaxRegsCow)
SpecCow == Init /\ [][NextCow]_vars

\* the registry operations over descriptors that may have the empty name
NextKeys == RegNext(ArgsKeys, MaxInfosKeys, MaxRegsKeys)
SpecKeys == Init /\ [][NextKeys]_vars

\* the registry operations interleaved with reads
NextRead ==
    \/ RegNext(ArgsRead, MaxInfosRead, MaxRegsRead)
    \/ \E a \in ArgsRead, i \in 1..MaxInfosRead : ConstructReuse(a, i)
    \/ ReadNext(MaxRegsRead)
SpecRead == Init /\ [][NextRead]_vars

\* fetch on a connection found idle, inside a transaction or inside a
\* failed one
InitFetch ==
    /\ RegInit /\ tstatus \in {"IDLE", "INTRANS", "INERROR"} /\ FetchIdle
    /\ ret = NoRet /\ it = NoIter
NextFetch == FetchNext
SpecFetch == InitFetch /\ [][NextFetch]_vars

TypeOK ==
    /\ \A r \in LiveRegs : regs[r]._registry \in DOMAIN dicts
    /\ \A n \in DOMAIN dicts :
          n \in HeldIds(it) \/ \E r \in LiveRegs : regs[r]._registry = n
    /\ HeldIds(it) \subseteq DOMAIN dicts

\* ------------------------------------------------------------ properties
\* every key a caller can probe the registries with
ProbeStrs == {Str_empty, Str_a, Str_a_arr, Str_a_arr \o ArrayMarker}
ProbeKeys ==
    {KStr(s) : s \in ProbeStrs} \cup {KInt(n) : n \in 0..2}
        \cup {KTuple(c, n) : c \in Classes, n \in 0..1}

IsAdd(r) == \E i \in 1..Len(infos) : Add(r, i)

IndexOf(d, k) == CHOOSE j \in 1..Len(d) : d[j].k = k

Elems(seq) == {seq[j] : j \in 1..Len(seq)}

\* C1: an add or a clear on one registry leaves every lookup (by any key,
\* through indexing and get) on every other registry as it was, whatever
\* derivations link the registries.  (A lookup reads nothing but the
\* entries of the mapping, so the lookups are compared only where the
\* entries differ.)
C1_Isolation ==
    [][\A r \in LiveRegs :
          (IsAdd(r) \/ Clear(r)) =>
              \A q \in LiveRegs \ {r} :
                  \/ RegDict(q)' = RegDict(q)
                  \/ \A k \in ProbeKeys :
                        /\ __getitem__(RegDict(q)', k) = __getitem__(RegDict(q), k)
                        /\ get(RegDict(q)', k) = get(RegDict(q), k)]_vars

\* a template that kept its own entries, a registry derived from it that
\* added a descriptor the template does not show, and a registry derived in
\* turn from that one and still sharing its index
C1_Witness ==
    /\ Len(regs) = 3
    /\ ~regs[1]._own_state
    /\ RegDict(1) # EmptyDict
    /\ regs[2]._registry = regs[3]._registry
    /\ regs[2]._registry # regs[1]._registry
    /\ \E k \in ProbeKeys :
          /\ __getitem__(RegDict(2), k).tag = "return"
          /\ __getitem__(RegDict(1), k).tag = "KeyError"

\* the descriptors C2 speaks of
RoundTripInfo(info) == info.oid # 0 /\ info.array_oid # 0 /\ info.name # <<>>

\* C2 as stated: right after add(d), d with nonzero oid and array_oid and a
\* non-empty name, the lookups by d.oid, d.array_oid, d.name and d.regtype
\* all return d.
C2_RoundTrip_Original ==
    [][\A r \in LiveRegs : \A i \in 1..Len(infos) :
          (Add(r, i) /\ RoundTripInfo(infos[i])) =>
              LET d == RegDict(r)'
              IN  /\ __getitem__(d, KInt(infos[i].oid)) = Return(i)
                  /\ __getitem__(d, KInt(infos[i].array_oid)) = Return(i)
                  /\ __getitem__(d, KStr(infos[i].name)) = Return(i)
                  /\ __getitem__(d, KStr(infos[i].regtype)) = Return(i)]_vars

\* C2 amended: right after add(d) the lookups by d.oid and d.array_oid
\* return d; the lookup by d.name returns d unless the name ends in "[]";
\* the lookup by d.regtype returns d unless the regtype ends in "[]" or the
\* regtype key was already bound to another descriptor before the add.
C2_RoundTrip ==
    [][\A r \in LiveRegs : \A i \in 1..Len(infos) :
          (Add(r, i) /\ RoundTripInfo(infos[i])) =>
              LET d == RegDict(r)'
                  before == RegDict(r)
                  rk == KStr(infos[i].regtype)
              IN  /\ __getitem__(d, KInt(infos[i].oid)) = Return(i)
                  /\ __getitem__(d, KInt(infos[i].array_oid)) = Return(i)
                  /\ ~endswith(infos[i].name, ArrayMarker)
                        => __getitem__(d, KStr(infos[i].name)) = Return(i)
                  /\ (/\ ~endswith(infos[i].regtype, ArrayMarker)
                      /\ \/ infos[i].regtype = infos[i].name
                         \/ ~DictHas(before, rk)
                         \/ DictGet(before, rk) = i)
                        => __getitem__(d, rk) = Return(i)]_vars

\* a registry that already held another descriptor and where a descriptor
\* added after it is found under its oid, array oid, name and regtype
C2_Witness ==
    \E r \in LiveRegs : \E i, j \in 1..Len(infos) :
        LET d == RegDict(r)
        IN  /\ i # j
            /\ RoundTripInfo(infos[i])
            /\ infos[i].regtype # infos[i].name
            /\ DictHas(d, KStr(infos[j].name))
            /\ DictGet(d, KStr(infos[j].name)) = j
            /\ DictHas(d, KStr(infos[i].name))
            /\ IndexOf(d, KStr(infos[j].name)) < IndexOf(d, KStr(infos[i].name))
            /\ __getitem__(d, KInt(infos[i].oid)) = Return(i)
            /\ __getitem__(d, KInt(infos[i].array_oid)) = Return(i)
            /\ __getitem__(d, KStr(infos[i].name)) = Return(i)
            /\ __getitem__(d, KStr(infos[i].regtype)) = Return(i)

\* the case of C3: the key k is bound to d1, whose name it is, a lookup by
\* k returns d1, and d2 with regtype k is being added
NonOverrideCase(r, i1, i2, k) ==
    /\ i1 # i2
    /\ infos[i1].name = k
    /\ infos[i2].regtype = k
    /\ DictHas(RegDict(r), KStr(k))
    /\ DictGet(RegDict(r), KStr(k)) = i1
    /\ Add(r, i2)

\* C3 as stated: when d2.regtype equals d1.name, a key already present, the
\* lookup by that key still returns d1 after d2 has been added, whatever
\* d2's other fields are.
C3_NonOverride_Original ==
    [][\A r \in LiveRegs : \A i1, i2 \in 1..Len(infos) : \A k \in Names :
          (NonOverrideCase(r, i1, i2, k)
              /\ __getitem__(RegDict(r), KStr(k)) = Return(i1))
          => __getitem__(RegDict(r)', KStr(k)) = Return(i1)]_vars

\* C3 amended: when d2.regtype equals d1.name, a key bound to d1, and
\* d2.name is a different string, the index still binds that key to d1
\* after d2 has been added, and a lookup by that key, when the key does not
\* end in "[]", returns d1.
C3_NonOverride ==
    [][\A r \in LiveRegs : \A i1, i2 \in 1..Len(infos) : \A k \in Names :
          (NonOverrideCase(r, i1, i2, k) /\ infos[i2].name # k)
          => /\ DictHas(RegDict(r)', KStr(k))
             /\ DictGet(RegDict(r)', KStr(k)) = i1
             /\ ~endswith(k, ArrayMarker)
                   => __getitem__(RegDict(r)', KStr(k)) = Return(i1)]_vars

\* d1 was added, then d2 whose regtype is d1's name and whose own name is
\* another string: d1's name key precedes d2's and is still bound to d1
C3_Witness ==
    \E r \in LiveRegs : \E i1, i2 \in 1..Len(infos) :
        LET d == RegDict(r)
        IN  /\ i1 # i2
            /\ infos[i2].regtype = infos[i1].name
            /\ infos[i2].name # infos[i1].name
            /\ DictHas(d, KStr(infos[i1].name))
            /\ DictHas(d, KStr(infos[i2].name))
            /\ DictGet(d, KStr(infos[i2].name)) = i2
            /\ IndexOf(d, KStr(infos[i1].name)) < IndexOf(d, KStr(infos[i2].name))
            /\ __getitem__(d, KStr(infos[i1].name)) = Return(i1)

\* C4: iterating a registry yields each descriptor bound to at least one
\* key exactly once and nothing else, however many keys reference it.
C4_IterationDedup ==
    \A r \in LiveRegs :
        LET d == RegDict(r)
            out == __iter__(d)
        IN  /\ \A m, n \in 1..Len(out) : out[m] = out[n] => m = n
            /\ Elems(out) = Elems(DictValues(d))

\* a descriptor bound under five keys (oid, array oid, name, regtype,
\* compound) that the iteration yields once
C4_Witness ==
    \E r \in LiveRegs : \E i \in 1..Len(infos) :
        LET d == RegDict(r)
        IN  /\ __iter__(d) = <<i>>
            /\ Cardinality({j \in 1..Len(d) : d[j].v = i}) = 5
            /\ \E j \in 1..Len(d) : d[j].v = i /\ d[j].k.kind = "tuple"

\* the case of C5: d1 is registered, and d2, another instance with the same
\* fields, is being added to the same registry
TwinCase(r, i1, i2) ==
    /\ i1 # i2
    /\ infos[i1] = infos[i2]
    /\ i1 \in Elems(__iter__(RegDict(r)))
    /\ Add(r, i2)

\* C5 as stated: two structurally identical descriptors added separately to
\* one registry both appear when it is iterated afterwards.
C5_TwinsBothAppear_Original ==
    [][\A r \in LiveRegs : \A i1, i2 \in 1..Len(infos) :
          TwinCase(r, i1, i2) =>
              {i1, i2} \subseteq Elems(__iter__(RegDict(r)'))]_vars

\* C5 amended: when a descriptor structurally identical to a registered one
\* is added, the new one appears in the iteration; the old one still appears
\* exactly when its regtype differs from its name and the regtype key was
\* bound to it, the one key the second add does not rebind.
C5_TwinsBothAppear ==
    [][\A r \in LiveRegs : \A i1, i2 \in 1..Len(infos) :
          TwinCase(r, i1, i2) =>
              LET out == Elems(__iter__(RegDict(r)'))
                  rk == KStr(infos[i1].regtype)
              IN  /\ i2 \in out
                  /\ i1 \in out <=>
                        /\ infos[i1].regtype # infos[i1].name
                        /\ DictHas(RegDict(r), rk)
                        /\ DictGet(RegDict(r), rk) = i1]_vars

\* two structurally identical instances both yielded by one iteration
C5_Witness ==
    \E r \in LiveRegs : \E i1, i2 \in 1..Len(infos) :
        /\ i1 # i2
        /\ infos[i1] = infos[i2]
        /\ {i1, i2} \subseteq Elems(__iter__(RegDict(r)))
        /\ DictGet(RegDict(r), KStr(infos[i2].name)) = i2

\* C10 as stated: for a descriptor registered under its name n, looking up
\* n followed by "[]" has the same outcome as looking up n, through both
\* indexing and get.
C10_ArraySuffix_Original ==
    \A r \in LiveRegs : \A i \in 1..Len(infos) :
        LET d == RegDict(r)
            n == infos[i].name
        IN  (DictHas(d, KStr(n)) /\ DictGet(d, KStr(n)) = i) =>
                /\ __getitem__(d, KStr(n \o ArrayMarker)) = __getitem__(d, KStr(n))
                /\ get(d, KStr(n \o ArrayMarker)) = get(d, KStr(n))

\* C10 amended: for every string key n of the index that does not itself
\* end in "[]", looking up n followed by "[]" and looking up n both return
\* the descriptor bound to n, through both indexing and get.
C10_ArraySuffix ==
    \A r \in LiveRegs :
        LET d == RegDict(r)
        IN  \A j \in 1..Len(d) :
                (d[j].k.kind = "str" /\ ~endswith(d[j].k.s, ArrayMarker)) =>
                    /\ __getitem__(d, KStr(d[j].k.s \o ArrayMarker)) = Return(d[j].v)
                    /\ __getitem__(d, d[j].k) = Return(d[j].v)
                    /\ get(d, KStr(d[j].k.s \o ArrayMarker)) = Return(d[j].v)
                    /\ get(d, d[j].k) = Return(d[j].v)

\* a descriptor named "a" found by looking up "a[]" while another
\* descriptor is bound to the raw key "a[]"
C10_Witness ==
    \E r \in LiveRegs : \E i, j \in 1..Len(infos) :
        LET d == RegDict(r)
        IN  /\ i # j
            /\ infos[i].name = Str_a
            /\ DictHas(d, KStr(Str_a_arr))
            /\ DictGet(d, KStr(Str_a_arr)) = j
            /\ __getitem__(d, KStr(Str_a_arr)) = Return(i)
            /\ get(d, KStr(Str_a)) = Return(i)

\* the name a string lookup resolves: one trailing "[]" removed
BaseName(s) == IF endswith(s, ArrayMarker) THEN strip2(s) ELSE s

\* C11: get_oid(name) returns the array_oid of the descriptor bound to the
\* name without its "[]" suffix when the name carries the suffix and the
\* scalar oid of that descriptor otherwise, and signals KeyError, returning
\* no number, when the name without its suffix is not a key.
C11_GetOid ==
    \A r \in LiveRegs : \A s \in ProbeStrs :
        LET d == RegDict(r)
            res == get_oid(d, infos, KStr(s))
        IN  IF DictHas(d, KStr(BaseName(s)))
            THEN LET t == infos[DictGet(d, KStr(BaseName(s)))]
                 IN  res = ReturnOid(IF endswith(s, ArrayMarker)
                                     THEN t.array_oid ELSE t.oid)
            ELSE res.tag = "KeyError"

\* a descriptor named "a" with oid 1 and array oid 2: "a" resolves to 1,
\* "a[]" to 2, and the empty name, not a key, to the not-found error
C11_Witness ==
    \E r \in LiveRegs : \E i \in 1..Len(infos) :
        LET d == RegDict(r)
        IN  /\ infos[i].name = Str_a
            /\ DictHas(d, KStr(Str_a))
            /\ DictGet(d, KStr(Str_a)) = i
            /\ get_oid(d, infos, KStr(Str_a)) = ReturnOid(1)
            /\ get_oid(d, infos, KStr(Str_a_arr)) = ReturnOid(2)
            /\ get_oid(d, infos, KStr(Str_empty)).tag = "KeyError"

\* the key the index is searched for: a string loses one trailing "[]"
BaseKey(k) == IF k.kind = "str" THEN KStr(BaseName(k.s)) ELSE k

\* C12: for every well-formed key (a string, an integer, a (kind, oid)
\* pair) indexing signals KeyError exactly when get returns None, which is
\* when the key searched for is absent; otherwise both return the
\* descriptor bound to it; get never signals KeyError.
C12_GetitemVsGet ==
    \A r \in LiveRegs : \A k \in ProbeKeys :
        LET d == RegDict(r)
            byIndex == __getitem__(d, k)
            byGet == get(d, k)
        IN  /\ byIndex.tag = "KeyError" <=> byGet = Return(None)
            /\ byIndex.tag = "KeyError" <=> ~DictHas(d, BaseKey(k))
            /\ byIndex.tag # "KeyError" =>
                  /\ byIndex = Return(DictGet(d, BaseKey(k)))
                  /\ byGet = byIndex
            /\ byGet.tag # "KeyError"

\* one registry where a compound key is found by both operations and an
\* integer key is missed by both, each in its own way
C12_Witness ==
    \E r \in LiveRegs : \E i \in 1..Len(infos) : \E n \in 0..2 :
        LET d == RegDict(r)
        IN  /\ __getitem__(d, KTuple("RangeInfo", 1)) = Return(i)
            /\ get(d, KTuple("RangeInfo", 1)) = Return(i)
            /\ __getitem__(d, KInt(n)) = Raise("KeyError", KInt(n))
            /\ get(d, KInt(n)) = Return(None)

\* keys that are not a string, an integer or a (kind, oid) pair: an object
\* of another type (None, a float, bytes) and a tuple of another shape
MalformedKeys == {KOther, KEmptyTuple}

\* C13: a malformed key is reported as a usage error (TypeError) by both
\* indexing and get, never as a miss: never KeyError from indexing, never
\* None from get.
C13_MalformedKey ==
    \A r \in LiveRegs : \A k \in MalformedKeys :
        /\ __getitem__(RegDict(r), k).tag = "TypeError"
        /\ get(RegDict(r), k).tag = "TypeError"

\* the names and oids a subtype can be asked by
SubtypeProbes == {k \in ProbeKeys : k.kind \in {"str", "int"}}

\* C14: get_by_subtype(kind, s) returns None when s, a name or an oid, is
\* not found; otherwise it returns what the index binds to the compound key
\* (kind, oid of the descriptor found for s), and None when that key is
\* absent, as get does; it never signals KeyError.
C14_GetBySubtype ==
    \A r \in LiveRegs : \A cls \in Classes : \A s \in SubtypeProbes :
        LET d == RegDict(r)
            out == get_by_subtype(d, infos, cls, s)
        IN  /\ out.tag = "return"
            /\ IF ~DictHas(d, BaseKey(s))
               THEN out = Return(None)
               ELSE LET ck == KTuple(cls, infos[DictGet(d, BaseKey(s))].oid)
                    IN  /\ out = get(d, ck)
                        /\ out = IF DictHas(d, ck)
                                 THEN Return(DictGet(d, ck))
                                 ELSE Return(None)

\* a base type with oid 1 and a range over it in one registry: the range
\* is found by the oid of its subtype; asking for another kind, or by an
\* oid that is not a key, gives None
C14_Witness ==
    \E r \in LiveRegs : \E i, j \in 1..Len(infos) :
        LET d == RegDict(r)
        IN  /\ i # j
            /\ infos[j].cls = "RangeInfo"
            /\ __getitem__(d, KInt(1)) = Return(i)
            /\ get_by_subtype(d, infos, "RangeInfo", KInt(1)) = Return(j)
            /\ get_by_subtype(d, infos, "TypeInfo", KInt(1)) = Return(None)
            /\ get_by_subtype(d, infos, "RangeInfo", KInt(0)) = Return(None)

\* every key a caller can pass, well formed or not
AllKeys == ProbeKeys \cup MalformedKeys

\* C15: deriving a registry B from a template A copies nothing: right after
\* it B and A reference the same index, which is the index A referenced
\* before, no index has been created or altered, both are marked not
\* privately owned, every lookup on B returns what it returns on A, and
\* every lookup on A returns what it returned before.
C15_DeriveShares ==
    [][\A a \in LiveRegs :
          Derive(a) =>
              \A b \in {Len(regs) + 1} :
                  /\ Len(regs') = b
                  /\ regs'[b]._registry = regs'[a]._registry
                  /\ regs'[a]._registry = regs[a]._registry
                  /\ dicts' = dicts
                  /\ ~regs'[b]._own_state
                  /\ ~regs'[a]._own_state
                  /\ \A k \in AllKeys :
                        /\ __getitem__(RegDict(b)', k) = __getitem__(RegDict(a)', k)
                        /\ get(RegDict(b)', k) = get(RegDict(a)', k)
                        /\ __getitem__(RegDict(a)', k) = __getitem__(RegDict(a), k)
                        /\ get(RegDict(a)', k) = get(RegDict(a), k)
                  /\ __iter__(RegDict(b)') = __iter__(RegDict(a))]_vars

\* a registry derived from a populated template and not written since:
\* fewer indexes than registries, the pair shares one, neither owns it
C15_Witness ==
    \E a, b \in LiveRegs :
        /\ a < b
        /\ regs[a]._registry = regs[b]._registry
        /\ ~regs[a]._own_state
        /\ ~regs[b]._own_state
        /\ Cardinality(DOMAIN dicts) < Len(regs)
        /\ \E k \in ProbeKeys :
              /\ k.kind = "tuple"
              /\ __getitem__(RegDict(b), k).tag = "return"
              /\ __getitem__(RegDict(b), k) = __getitem__(RegDict(a), k)

DictKeySet(d) == {d[j].k : j \in 1..Len(d)}

\* the binding of key k is the same in d2 as in d1
SameBinding(d1, d2, k) ==
    /\ DictHas(d2, k) <=> DictHas(d1, k)
    /\ DictHas(d1, k) => DictGet(d2, k) = DictGet(d1, k)

\* the keys add(d) itself is said to bind, given the index before the add:
\* at the regtype step the keys bound are those of before and d's name
WrittenKeys(info, before) ==
    (IF info.oid # 0 THEN {KInt(info.oid)} ELSE {})
        \cup (IF info.array_oid # 0 THEN {KInt(info.array_oid)} ELSE {})
        \cup {KStr(info.name)}
        \cup (IF ~DictHas(before, KStr(info.regtype))
              THEN {KStr(info.regtype)} ELSE {})

\* the key the post-add callback of d writes
CallbackKeys(info) ==
    IF info.cls = "RangeInfo"
    THEN {KTuple("RangeInfo", info.subtype_oid)} ELSE {}

\* after add(d) the keys in written are bound to d, every other key (a key
\* of neither index is unbound in both) is bound as before, the integer
\* key 0 is not bound, no key is gone
AddFrame(before, after, i, written) ==
    /\ \A k \in written : DictHas(after, k) /\ DictGet(after, k) = i
    /\ \A k \in (DictKeySet(before) \cup DictKeySet(after)) \ written :
          SameBinding(before, after, k)
    /\ ~DictHas(after, KInt(0))
    /\ DictKeySet(before) \subseteq DictKeySet(after)

\* C16 as stated: add(d) binds to d exactly d.oid when nonzero, d.array_oid
\* when nonzero, d.name always and d.regtype when that key was not bound
\* just before the regtype step, changes the binding of no other key, never
\* binds the key 0 and never removes a key.
C16_AddFrame_Original ==
    [][\A r \in LiveRegs : \A i \in 1..Len(infos) :
          Add(r, i) =>
              AddFrame(RegDict(r), RegDict(r)', i,
                       WrittenKeys(infos[i], RegDict(r)))]_vars

\* C16 amended: add(d) binds to d exactly d.oid when nonzero, d.array_oid
\* when nonzero, d.name always, d.regtype when that key was not bound just
\* before the regtype step, and the key d's post-add callback writes (the
\* compound key (kind, subtype oid) of a derived kind, none for the generic
\* descriptor); it changes the binding of no other key, never binds the
\* key 0 and never removes a key.
C16_AddFrame ==
    [][\A r \in LiveRegs : \A i \in 1..Len(infos) :
          Add(r, i) =>
              AddFrame(RegDict(r), RegDict(r)', i,
                       WrittenKeys(infos[i], RegDict(r))
                           \cup CallbackKeys(infos[i]))]_vars

\* a descriptor with the empty name, nonzero oids and regtype "a" added
\* after a descriptor named "a" with oid 0: "a" is still bound to the
\* earlier one, the empty name and the oids to the later one, 0 to nothing
C16_Witness ==
    \E r \in LiveRegs : \E i, j \in 1..Len(infos) :
        LET d == RegDict(r)
        IN  /\ i # j
            /\ infos[i].name = Str_empty
            /\ infos[i].regtype = Str_a
            /\ infos[i].oid # 0
            /\ infos[i].array_oid # 0
            /\ infos[j].oid = 0
            /\ DictKeySet(d) = {KStr(Str_a), KInt(infos[i].oid),
                                KInt(infos[i].array_oid), KStr(Str_empty)}
            /\ DictGet(d, KStr(Str_a)) = j
            /\ \A k \in DictKeySet(d) \ {KStr(Str_a)} : DictGet(d, k) = i

\* C17: the query fetch is about to execute resolves the name with
\* to_regtype() exactly when the vendor is PostgreSQL and server_version >=
\* 90400, or the vendor is CockroachDB and server_version >= 220200; for
\* every other vendor and every lower version it casts the name directly.
C17_ToRegtypeThresholds ==
    pc = "execute" =>
        IF \/ conn.vendor = "PostgreSQL" /\ conn.server_version >= 90400
           \/ conn.vendor = "CockroachDB" /\ conn.server_version >= 220200
        THEN _get_info_query(conn) = "to_regtype(%(name)s)"
        ELSE _get_info_query(conn) = "%(name)s::regtype"

\* a CockroachDB server one version short of 22.2, well past PostgreSQL's
\* threshold, is about to be sent the direct cast
C17_Witness ==
    /\ pc = "execute"
    /\ conn.vendor = "CockroachDB"
    /\ conn.server_version = 220199
    /\ _get_info_query(conn) = "%(name)s::regtype"

\* C19: in every state reached by creating, deriving, adding and clearing,
\* no index is referenced by two distinct registries while either of them
\* is marked privately owned: a registry marked privately owned is the only
\* one referencing its index.
C19_Ownership ==
    \A r, q \in LiveRegs :
        (r # q /\ regs[r]._registry = regs[q]._registry)
            => (~regs[r]._own_state /\ ~regs[q]._own_state)

\* two registries still sharing a populated index, neither owning it, and
\* a third that forked from it by adding and owns a larger index alone
C19_Witness ==
    \E a, b, c \in LiveRegs :
        /\ a # b
        /\ regs[a]._registry = regs[b]._registry
        /\ ~regs[a]._own_state
        /\ ~regs[b]._own_state
        /\ regs[c]._own_state
        /\ regs[c]._registry # regs[a]._registry
        /\ Len(RegDict(a)) > 0
        /\ Len(RegDict(c)) > Len(RegDict(a))
        /\ \A j \in 1..Len(RegDict(a)) : RegDict(c)[j].k = RegDict(a)[j].k

\* C18: add(d) calls d's post-add callback exactly once (the calls an add
\* makes are counted, for a generic descriptor as for a derived kind), on
\* the registry add was called on, after that registry has forked to an
\* index of its own and after d's keys are in it.  Seen through the
\* compound key a derived kind's callback writes: after the add the
\* registry owns its index, the compound key is
\* bound to d there, it follows d's name key when both are new (and is the
\* newest entry when new), and no other registry, the template and the
\* registries that shared the index before the add included, sees any
\* change.
C18_PostAddCallback ==
    [][\A r \in LiveRegs : \A i \in 1..Len(infos) :
          Add(r, i) =>
            /\ hooks' = 1
            /\ \A ck \in CallbackKeys(infos[i]) :
                  /\ regs'[r]._own_state
                  /\ DictHas(RegDict(r)', ck)
                  /\ DictGet(RegDict(r)', ck) = i
                  /\ DictGet(RegDict(r)', KStr(infos[i].name)) = i
                  /\ ~DictHas(RegDict(r), ck) =>
                        /\ RegDict(r)'[Len(RegDict(r)')].k = ck
                        /\ IndexOf(RegDict(r)', KStr(infos[i].name))
                              < IndexOf(RegDict(r)', ck)
                  /\ \A q \in LiveRegs \ {r} :
                        /\ regs'[q] = regs[q]
                        /\ regs'[q]._registry # regs'[r]._registry
                        /\ RegDict(q)' = RegDict(q)
                        /\ SameBinding(RegDict(q), RegDict(q)', ck)]_vars

\* a range descriptor added to a registry derived from a populated
\* template, its callback called once: the compound key is the newest
\* entry of the registry's own index and the template, still not marked
\* owned, does not have it
C18_Witness ==
    \E a, b \in LiveRegs : \E i \in 1..Len(infos) :
        \E ck \in CallbackKeys(infos[i]) :
            /\ hooks = 1
            /\ a < b
            /\ ~regs[a]._own_state
            /\ regs[b]._own_state
            /\ Len(RegDict(a)) > 0
            /\ Len(RegDict(b)) > Len(RegDict(a))
            /\ \A j \in 1..Len(RegDict(a)) : RegDict(b)[j] = RegDict(a)[j]
            /\ RegDict(b)[Len(RegDict(b))] = [k |-> ck, v |-> i]
            /\ ~DictHas(RegDict(a), ck)

\* C20: a step in which a read acts (indexing, get, get_oid, get_by_subtype
\* delivering a hit, a miss or an error; iter() making a generator; next()
\* yielding a descriptor, ending or raising) leaves the contents of every
\* registry's index, the index each registry references, every ownership
\* flag and every field of every descriptor as they were.
C20_ReadPurity ==
    [][(ret' # ret \/ it' # it) =>
          /\ ret'.op \in {"__getitem__", "get", "get_oid", "get_by_subtype",
                           "__iter__", "next"}
          /\ regs' = regs
          /\ \A r \in LiveRegs : RegDict(r)' = RegDict(r)
          /\ infos' = infos]_vars

\* an iteration over a registry that shares a populated index with its
\* template has just yielded a descriptor and is suspended; the two
\* registries still reference that one index and neither is marked owned
C20_Witness ==
    \E a, b \in LiveRegs :
        /\ a < b
        /\ regs[a]._registry = regs[b]._registry
        /\ ~regs[a]._own_state
        /\ ~regs[b]._own_state
        /\ Len(RegDict(b)) > 0
        /\ it.state = "running"
        /\ it.dict = regs[b]._registry
        /\ ret.op = "next"
        /\ ret.res.tag = "return"

\* C6: whether fetch found the connection idle or inside a transaction (a
\* connection found inside a failed transaction is not the claim's case), and
\* whether the query returned rows or the cast raised the unknown-type
\* error, the transaction status when fetch returns (with a descriptor or
\* None, or raising the ProgrammingError of several rows) is the one it had
\* when fetch was called.  A fetch that ends in CancelledError does not
\* return; what it leaves behind is the matter of C9.
C6_TransactionRestored ==
    (pc = "done" /\ entry_status \in {"IDLE", "INTRANS"}
                /\ outcome \in {"rows", "UndefinedObject"}
                /\ exc # "CancelledError")
        => tstatus = entry_status

\* fetch called inside a transaction, the cast raised the unknown-type
\* error, fetch returned None and the connection is inside its transaction
C6_Witness ==
    /\ pc = "done"
    /\ outcome = "UndefinedObject"
    /\ entry_status = "INTRANS"
    /\ tstatus = "INTRANS"
    /\ exc = "none"

\* C7: of the rows fetch has read and passes to _from_records, zero rows
\* give None without an error, one row gives a descriptor with that row's
\* name, oid, array_oid, regtype and delimiter, two or more rows give the
\* ProgrammingError and never a descriptor.
C7_RowCount ==
    (pc = "done" /\ outcome = "rows" /\ exc # "CancelledError") =>
        /\ Len(catalog) = 0 => (exc = "none" /\ result = <<>>)
        /\ Len(catalog) = 1 =>
              /\ exc = "none"
              /\ Len(result) = 1
              /\ result[1].name = catalog[1].name
              /\ result[1].oid = catalog[1].oid
              /\ result[1].array_oid = catalog[1].array_oid
              /\ result[1].regtype = catalog[1].regtype
              /\ result[1].delimiter = catalog[1].delimiter
        /\ Len(catalog) >= 2 => (exc = "ProgrammingError" /\ result = <<>>)

\* the query returned two rows and fetch raised the ProgrammingError
C7_Witness ==
    /\ pc = "done"
    /\ outcome = "rows"
    /\ Len(catalog) = 2
    /\ exc = "ProgrammingError"

\* C8: when the query raises the unknown-type error the caller never sees
\* that error, and a fetch that is not cancelled returns None; when the
\* query raises another error fetch never returns, and a fetch that is not
\* cancelled raises that same error; a cancellation reaches the caller as
\* CancelledError.
C8_OnlyUndefinedObjectCaught ==
    pc = "done" =>
        /\ outcome = "UndefinedObject" =>
              /\ exc # "UndefinedObject"
              /\ exc # "CancelledError" => (exc = "none" /\ result = <<>>)
        /\ outcome = "OtherError" =>
              /\ exc # "none"
              /\ exc # "CancelledError" => exc = "OtherError"
        /\ outcome = "CancelledError" => exc = "CancelledError"

\* the query raised another error and fetch raised it to the caller
C8_Witness ==
    /\ pc = "done"
    /\ outcome = "OtherError"
    /\ exc = "OtherError"
    /\ conn.kind = "Connection"

\* C9: the cursor scope is open only inside the transaction scope, so it is
\* closed before the transaction scope is exited, and once fetch is past
\* its with blocks, on whatever path (rows, the unknown-type error caught,
\* another error, a cancellation), neither scope is open.
C9_ScopesReleased ==
    /\ cursor.open => scopes # <<>>
    /\ pc \in {"except", "from_records", "done", "idle"}
          => (~cursor.open /\ scopes = <<>>)

\* a suspending fetch cancelled while its query was in flight has ended
\* with the cursor closed and the transaction scope exited
C9_Witness ==
    /\ pc = "done"
    /\ conn.kind = "AsyncConnection"
    /\ outcome = "CancelledError"
    /\ exc = "CancelledError"
    /\ ~cursor.open
    /\ scopes = <<>>
    /\ tstatus = entry_status

====
